---- MODULE Spec2Model ----
(***************************************************************************)
(* Model of TerminalTabbedView                                             *)
(* (src/vs/workbench/contrib/terminal/browser/terminalTabbedView.ts).      *)
(*                                                                         *)
(* The controller owns a SplitView holding the tab-list slot and the       *)
(* terminal-surface slot, reacts to configuration changes, and routes      *)
(* mouse / contextmenu / drop events to the active terminal.               *)
(*                                                                         *)
(* Four specifications share the variables:                                *)
(*   Spec       the split view: construction, configuration changes,       *)
(*              layout, sash reset, theme, find-overlay focus, dispose;    *)
(*   SpecInput  right-click routing: mousedown, contextmenu, the awaited   *)
(*              copy, the deferred clear, terminal and setting changes;    *)
(*   SpecDrop   the drop listener and its awaited path preparation;        *)
(*   SpecGesture  mousedown, contextmenu and drop together, with no text   *)
(*              selected.                                                  *)
(* Every step records the handler that ran (lastOp) and the calls it       *)
(* issued on its collaborators (calls).                                    *)
(***************************************************************************)
EXTENDS Integers, Sequences, FiniteSets, Bags, TLC

\* ---------------------------------------------------------------- bounds
\* heights range over 0..MaxDim, widths over 1..MaxDim
MaxDim == 1
\* the split view never grows beyond MaxViews slots in the model
MaxViews == 3
\* at most MaxPending asynchronous continuations of one kind are in flight
MaxPending == 1
\* terminals are numbered 1..NumTerminals
NumTerminals == 2

Heights == 0..MaxDim
Widths == 1..MaxDim
Terminals == 1..NumTerminals

\* ------------------------------------------------------- program constants
TabTree == "terminalTabTree"
TerminalContainer == "terminalContainer"
ShowTabsKey == "terminal.integrated.showTabs"
TabsLocationKey == "terminal.integrated.tabsLocation"
\* any configuration key the controller's handler does not test
OtherKey == "terminal.integrated.rightClickBehavior"
ConfigKeys == {ShowTabsKey, TabsLocationKey, OtherKey}
Locations == {"left", "right"}
RightClickBehaviors == {"default", "copyPaste", "paste"}
Platforms == {"linux", "mac", "windows"}
\* _height before the first layout call (undefined)
Undefined == -1
\* getActiveInstance() returning nothing
NoTerminal == 0
NoOp == [op |-> "construct"]
NoTrip == [n |-> 0]
NoDown == [op |-> "none"]
\* a drop that resolves to no path
NoPath == ""
\* event.which
MiddleButton == 2
RightButton == 3
Buttons == {1, MiddleButton, RightButton}

VARIABLES
    \* configuration (terminalService.configHelper.config)
    showTabs, tabsLocation, rightClickBehavior,
    \* controller fields
    _showTabs, _tabTreeIndex, _terminalContainerIndex, _height,
    _cancelContextMenu, disposed,
    \* the SplitView: its ordered view items and the size it was last laid out at
    viewItems, splitSize,
    \* find overlay: whether it has focus, and the 'find-focused' class on the container
    findFocus, findClass,
    \* terminal service: instances (one tab each), active instance, instances with a selection
    instances, active, selection,
    \* platform (isLinux / isMacintosh) and BrowserFeatures.clipboard.readText
    platform, clipboardRead,
    \* continuations in flight: awaited copySelection, awaited preparePath, setTimeout(0)
    pendingCopy, pendingDrop, pendingTimer,
    \* the right-button mousedown whose contextmenu event is still to come, if any
    lastDown,
    \* history: the handler that ran last and the calls it issued; whether no
    \* notification about the controller's two keys arrived since construction; the round trip of
    \* two consecutive notifications in progress; the height of the last layout call
    lastOp, calls, fresh, trip, lastLayout

viewVars == <<showTabs, tabsLocation, _showTabs, _tabTreeIndex, _terminalContainerIndex,
              _height, viewItems, splitSize, findFocus, findClass, fresh, trip,
              lastLayout>>
inputVars == <<rightClickBehavior, _cancelContextMenu, instances, active, selection,
               platform, clipboardRead, pendingCopy, pendingDrop, pendingTimer,
               lastDown>>
vars == <<viewVars, inputVars, disposed, lastOp, calls>>

\* ------------------------------------------------------------- utilities
Range(s) == {s[i] : i \in 1..Len(s)}
\* positions (0-based, as the split view counts them) at which element e sits
PositionsOf(items, e) == {i \in 0..(Len(items) - 1) : items[i + 1] = e}
SetToSeq(S) ==
    LET RECURSIVE Build(_, _)
        Build(T, n) == IF n > NumTerminals THEN <<>>
                       ELSE IF n \in T THEN <<n>> \o Build(T, n + 1)
                       ELSE Build(T, n + 1)
    IN Build(S, 1)

\* ------------------------------------------------- SplitView (collaborator)
\* addView(view, sizing, index): insert at index; an index past the end appends
AddView(items, element, index) ==
    IF index >= Len(items) THEN Append(items, element)
    ELSE SubSeq(items, 1, index) \o <<element>> \o SubSeq(items, index + 1, Len(items))

\* removeView(index) rejects an index outside the list
ValidIndex(items, index) == index >= 0 /\ index < Len(items)

RemoveView(items, index) ==
    IF ValidIndex(items, index)
    THEN SubSeq(items, 1, index) \o SubSeq(items, index + 2, Len(items))
    ELSE items

\* swapViews(from, to): exchange the positions of two existing views
SwapViews(items, from, to) ==
    IF ValidIndex(items, from) /\ ValidIndex(items, to)
    THEN [i \in 1..Len(items) |->
            IF i = from + 1 THEN items[to + 1]
            ELSE IF i = to + 1 THEN items[from + 1]
            ELSE items[i]]
    ELSE items

\* ------------------------------------------------------ pane layout callbacks
\* layout: width => this._tabsWidget!.layout(this._height, width)
TabTreeLayout(width, height) ==
    <<[fn |-> "tabsWidget.layout", height |-> height, width |-> width]>>

\* this._height || 0
HeightOrZero(height) == IF height = Undefined \/ height = 0 THEN 0 ELSE height

\* layout: width => terminalTabs.forEach(tab => tab.layout(width, this._height || 0))
TerminalContainerLayout(width, height, tabs) ==
    LET order == SetToSeq(tabs)
    IN [i \in 1..Len(order) |->
          [fn |-> "tab.layout", tab |-> order[i], width |-> width,
           height |-> HeightOrZero(height)]]

\* the split view hands every pane its share of the size (Sizing.Distribute)
RECURSIVE LayoutViews(_, _, _, _)
LayoutViews(items, share, height, tabs) ==
    IF items = <<>> THEN <<>>
    ELSE (IF Head(items) = TabTree THEN TabTreeLayout(share, height)
          ELSE TerminalContainerLayout(share, height, tabs))
         \o LayoutViews(Tail(items), share, height, tabs)

Relayout(items, size, height, tabs) ==
    IF items = <<>> THEN <<>>
    ELSE LayoutViews(items, size \div Len(items), height, tabs)

IsCallback(c) == c.fn \in {"tabsWidget.layout", "tab.layout"}
IsEngineCall(c) == c.fn \in {"addView", "removeView", "swapViews"}

\* ------------------------------------------------------------ construction
TabTreeIndexSlip(location) == 0

\* tabsLocation === 'left' ? 0 : 1
TabTreeIndexFor(location) == IF location = "left" THEN 0 ELSE 1
\* tabsLocation === 'left' ? 1 : 0
TerminalContainerIndexFor(location) == IF location = "left" THEN 1 ELSE 0

\* _setupSplitView: the tab-list slot when tabs are shown, then always the surface slot
SetupSplitView(show, tabIndex, containerIndex) ==
    LET first == IF show THEN AddView(<<>>, TabTree, tabIndex) ELSE <<>>
    IN AddView(first, TerminalContainer, containerIndex)

Snapshot == [views |-> viewItems, tabTreeIndex |-> _tabTreeIndex,
             terminalContainerIndex |-> _terminalContainerIndex]

InitView ==
    /\ showTabs \in BOOLEAN
    /\ tabsLocation \in Locations
    /\ _showTabs = showTabs
    /\ _tabTreeIndex = TabTreeIndexFor(tabsLocation)
    /\ _terminalContainerIndex = TerminalContainerIndexFor(tabsLocation)
    /\ _height = Undefined
    /\ viewItems = SetupSplitView(_showTabs, _tabTreeIndex, _terminalContainerIndex)
    /\ splitSize = 0
    /\ findFocus = FALSE
    /\ findClass = FALSE
    /\ fresh = TRUE
    /\ trip = NoTrip
    /\ lastLayout = [called |-> FALSE]

InitInput ==
    /\ rightClickBehavior \in RightClickBehaviors
    /\ _cancelContextMenu = FALSE
    /\ instances \in SUBSET Terminals
    /\ active \in instances \cup {NoTerminal}
    /\ selection \in SUBSET instances
    /\ platform \in Platforms
    /\ clipboardRead \in BOOLEAN
    /\ pendingCopy = EmptyBag
    /\ pendingDrop = EmptyBag
    /\ pendingTimer = EmptyBag
    /\ lastDown = NoDown

InitCommon ==
    /\ disposed = FALSE
    /\ lastOp = NoOp
    /\ calls = <<>>

\* ------------------------------------------------- configuration changes
\* the body of the onDidChangeConfiguration listener, run after the
\* configuration took the values (newShow, newLocation); keys are the
\* keys e.affectsConfiguration answers true for
ShowTabsBranch(newShow) ==
    /\ _showTabs' = newShow
    /\ UNCHANGED <<_tabTreeIndex, _terminalContainerIndex>>
    /\ IF newShow
       THEN /\ Len(viewItems) < MaxViews
            /\ viewItems' = AddView(viewItems, TabTree, _tabTreeIndex)
            /\ calls' = <<[fn |-> "addView", element |-> TabTree, index |-> _tabTreeIndex,
                            present |-> TabTree \in Range(viewItems)]>>
                        \o Relayout(viewItems', splitSize, _height, instances)
       ELSE /\ viewItems' = RemoveView(viewItems, _tabTreeIndex)
            /\ calls' = <<[fn |-> "removeView", index |-> _tabTreeIndex,
                            present |-> TabTree \in Range(viewItems)]>>
                        \o (IF ValidIndex(viewItems, _tabTreeIndex)
                            THEN Relayout(viewItems', splitSize, _height, instances)
                            ELSE <<>>)

TabsLocationBranchSlip(newLocation) ==
    /\ _tabTreeIndex' = TabTreeIndexFor(newLocation)
    /\ _terminalContainerIndex' = TerminalContainerIndexFor(newLocation)
    /\ UNCHANGED _showTabs
    /\ viewItems' = SwapViews(viewItems, 0, 1)
    /\ calls' = <<[fn |-> "swapViews", from |-> 0, to |-> 1]>>

TabsLocationBranch(newLocation) ==
    /\ _tabTreeIndex' = TabTreeIndexFor(newLocation)
    /\ _terminalContainerIndex' = TerminalContainerIndexFor(newLocation)
    /\ UNCHANGED _showTabs
    /\ IF _showTabs
       THEN /\ viewItems' = SwapViews(viewItems, 0, 1)
            /\ calls' = <<[fn |-> "swapViews", from |-> 0, to |-> 1]>>
                        \o (IF ValidIndex(viewItems, 1)
                            THEN Relayout(viewItems', splitSize, _height, instances)
                            ELSE <<>>)
       ELSE /\ UNCHANGED viewItems
            /\ calls' = <<>>

OnDidChangeConfigurationSlip(keys, newShow, newLocation) ==
    IF ShowTabsKey \in keys THEN ShowTabsBranch(newShow)
    ELSE TabsLocationBranch(newLocation)

OnDidChangeConfiguration(keys, newShow, newLocation) ==
    IF ShowTabsKey \in keys THEN ShowTabsBranch(newShow)
    ELSE IF TabsLocationKey \in keys THEN TabsLocationBranch(newLocation)
    ELSE /\ UNCHANGED <<_showTabs, _tabTreeIndex, _terminalContainerIndex, viewItems>>
         /\ calls' = <<>>

\* Round trips of two consecutive notifications, each changing one key only:
\*   "toggle"  showTabs true -> false -> true, begun right after construction;
\*   "swap"    tabsLocation to the other value and back, while tabs are shown.
\* trip.before is the split view and the indices before the first of the two.
TogglesOff(keys, newShow, newLocation) ==
    keys = {ShowTabsKey} /\ showTabs /\ ~newShow
TogglesOn(keys, newShow, newLocation) ==
    keys = {ShowTabsKey} /\ ~showTabs /\ newShow
Swaps(keys, newShow, newLocation) ==
    keys = {TabsLocationKey} /\ newLocation # tabsLocation /\ _showTabs

TripAfter(keys, newShow, newLocation) ==
    IF trip.n = 1 /\ trip.kind = "toggle" /\ TogglesOn(keys, newShow, newLocation)
    THEN [trip EXCEPT !.n = 2]
    ELSE IF trip.n = 1 /\ trip.kind = "swap" /\ Swaps(keys, newShow, newLocation)
    THEN [trip EXCEPT !.n = 2]
    ELSE IF fresh /\ TogglesOff(keys, newShow, newLocation)
    THEN [n |-> 1, kind |-> "toggle", before |-> Snapshot]
    ELSE IF Swaps(keys, newShow, newLocation)
    THEN [n |-> 1, kind |-> "swap", before |-> Snapshot]
    ELSE NoTrip

\* a configuration-change notification: a value that changed is among the
\* affected keys; an affected key may keep its effective value
ConfigChange(keys, newShow, newLocation, newBehavior) ==
    /\ keys # {}
    /\ newShow # showTabs => ShowTabsKey \in keys
    /\ newLocation # tabsLocation => TabsLocationKey \in keys
    /\ newBehavior # rightClickBehavior => OtherKey \in keys
    /\ showTabs' = newShow
    /\ tabsLocation' = newLocation
    /\ rightClickBehavior' = newBehavior
    /\ OnDidChangeConfiguration(keys, newShow, newLocation)
    /\ lastOp' = [op |-> "config", keys |-> keys, shownBefore |-> _showTabs]
    /\ fresh' = (fresh /\ keys \cap {ShowTabsKey, TabsLocationKey} = {})
    /\ trip' = TripAfter(keys, newShow, newLocation)
    /\ UNCHANGED <<_height, splitSize, findFocus, findClass, lastLayout,
                   _cancelContextMenu, instances, active, selection, platform,
                   clipboardRead, pendingCopy, pendingDrop, pendingTimer,
                   lastDown, disposed>>

ViewConfigChange ==
    \E keys \in SUBSET ConfigKeys, newShow \in BOOLEAN, newLocation \in Locations :
        ConfigChange(keys, newShow, newLocation, rightClickBehavior)

\* ----------------------------------------------------------------- layout
RecordedHeightSlip(width, height) == width

\* this._height = height
RecordedHeight(width, height) == height

Layout(width, height) ==
    /\ splitSize' = width
    /\ calls' = <<[fn |-> "splitView.layout", width |-> width]>>
                \o Relayout(viewItems, width, _height, instances)
    /\ _height' = RecordedHeight(width, height)
    /\ lastLayout' = [called |-> TRUE, height |-> height]
    /\ lastOp' = [op |-> "layout", width |-> width, height |-> height]
    /\ UNCHANGED <<showTabs, tabsLocation, _showTabs, _tabTreeIndex,
                   _terminalContainerIndex, viewItems, findFocus, findClass,
                   fresh, trip, inputVars, disposed>>

DoLayout == \E width \in Widths, height \in Heights : Layout(width, height)

\* onDidSashReset(() => this._splitView.distributeViewSizes())
SashReset ==
    /\ ~disposed
    /\ Len(viewItems) > 1
    /\ calls' = <<[fn |-> "distributeViewSizes"]>>
                \o Relayout(viewItems, splitSize, _height, instances)
    /\ lastOp' = [op |-> "sashReset"]
    /\ UNCHANGED <<viewVars, inputVars, disposed>>

\* themeService.onDidColorThemeChange(theme => this._updateTheme(theme))
ThemeChange ==
    /\ ~disposed
    /\ calls' = <<[fn |-> "findWidget.updateTheme"]>>
    /\ lastOp' = [op |-> "theme"]
    /\ UNCHANGED <<viewVars, inputVars, disposed>>

\* focusTracker.onDidFocus(() => classList.add(FIND_FOCUS_CLASS))
FindFocus ==
    /\ ~findFocus
    /\ findFocus' = TRUE
    /\ findClass' = TRUE
    /\ calls' = <<>>
    /\ lastOp' = [op |-> "findFocus"]
    /\ UNCHANGED <<showTabs, tabsLocation, _showTabs, _tabTreeIndex,
                   _terminalContainerIndex, _height, viewItems, splitSize,
                   fresh, trip, lastLayout, inputVars, disposed>>

\* the overlay loses focus; the controller has no listener for it
FindBlur ==
    /\ findFocus
    /\ findFocus' = FALSE
    /\ calls' = <<>>
    /\ lastOp' = [op |-> "findBlur"]
    /\ UNCHANGED <<showTabs, tabsLocation, _showTabs, _tabTreeIndex,
                   _terminalContainerIndex, _height, viewItems, splitSize, findClass,
                   fresh, trip, lastLayout, inputVars, disposed>>

\* Disposable.dispose(): releases what was passed to this._register
Dispose ==
    /\ ~disposed
    /\ disposed' = TRUE
    /\ calls' = <<>>
    /\ lastOp' = [op |-> "dispose"]
    /\ UNCHANGED <<viewVars, inputVars>>

Init == InitView /\ InitCommon
        /\ rightClickBehavior = "default" /\ _cancelContextMenu = FALSE
        /\ instances = Terminals /\ active = 1 /\ selection = {}
        /\ platform = "linux" /\ clipboardRead = TRUE
        /\ pendingCopy = EmptyBag /\ pendingDrop = EmptyBag /\ pendingTimer = EmptyBag
        /\ lastDown = NoDown

Next ==
    \/ ViewConfigChange
    \/ DoLayout
    \/ SashReset
    \/ ThemeChange
    \/ FindFocus
    \/ FindBlur
    \/ Dispose

Spec == Init /\ [][Next]_vars
\* ============================================================ input routing
OneMore(bag, e) == bag (+) SetToBag({e})
OneLess(bag, e) == bag (-) SetToBag({e})

OpenContextMenuSlip == <<>>

\* _openContextMenu: contextMenuService.showContextMenu(...)
OpenContextMenu == <<[fn |-> "showContextMenu"]>>

PasteOrNoticeSlip(canRead) == "paste"

\* if (BrowserFeatures.clipboard.readText) paste() else notificationService.info(...)
PasteOrNotice(canRead) == IF canRead THEN "paste" ELSE "notice"

MouseDownBranchNoTerminalSlip(button, shiftKey) ==
    IF instances = {} THEN "return"
    ELSE IF button = MiddleButton /\ platform = "linux" THEN "focus"
    ELSE IF button = RightButton
    THEN IF rightClickBehavior \in {"copyPaste", "paste"}
         THEN IF rightClickBehavior = "copyPaste" /\ shiftKey THEN "menu"
              ELSE IF rightClickBehavior = "copyPaste" /\ active \in selection THEN "copy"
              ELSE PasteOrNotice(clipboardRead)
         ELSE "return"
    ELSE "return"

MouseDownBranchNoShiftSlip(button, shiftKey) ==
    IF instances = {} THEN "return"
    ELSE IF button = MiddleButton /\ platform = "linux"
    THEN (IF active # NoTerminal THEN "focus" ELSE "return")
    ELSE IF button = RightButton
    THEN IF rightClickBehavior \in {"copyPaste", "paste"}
         THEN IF active = NoTerminal THEN "return"
              ELSE IF rightClickBehavior = "copyPaste" /\ active \in selection THEN "copy"
              ELSE PasteOrNotice(clipboardRead)
         ELSE "return"
    ELSE "return"

\* the path the mousedown listener takes
MouseDownBranch(button, shiftKey) ==
    IF instances = {} THEN "return"
    ELSE IF button = MiddleButton /\ platform = "linux"
    THEN (IF active # NoTerminal THEN "focus" ELSE "return")
    ELSE IF button = RightButton
    THEN IF rightClickBehavior \in {"copyPaste", "paste"}
         THEN IF active = NoTerminal THEN "return"
              ELSE IF rightClickBehavior = "copyPaste" /\ shiftKey THEN "menu"
              ELSE IF rightClickBehavior = "copyPaste" /\ active \in selection THEN "copy"
              ELSE PasteOrNotice(clipboardRead)
         ELSE "return"
    ELSE "return"

\* the 'mousedown' listener up to its first await (or to its end)
MouseDown(button, shiftKey) ==
    LET branch == MouseDownBranch(button, shiftKey)
        sync == branch \in {"paste", "notice"}
        event == [op |-> "mousedown", button |-> button, shiftKey |-> shiftKey,
                  behavior |-> rightClickBehavior, terminal |-> active,
                  hadSelection |-> active \in selection,
                  flagBefore |-> _cancelContextMenu]
    IN /\ ~disposed
       /\ lastDown = NoDown
       /\ branch = "copy" => BagCardinality(pendingCopy) < MaxPending
       /\ (sync /\ platform = "mac") => BagCardinality(pendingTimer) < MaxPending
       /\ calls' = CASE branch = "focus" -> <<[fn |-> "focus", terminal |-> active]>>
                     [] branch = "menu" -> OpenContextMenu
                     [] branch = "copy" -> <<[fn |-> "copySelection", terminal |-> active]>>
                     [] branch = "paste" -> <<[fn |-> "paste", terminal |-> active]>>
                     [] branch = "notice" -> <<[fn |-> "notificationService.info"]>>
                     [] OTHER -> <<>>
       /\ pendingCopy' = IF branch = "copy" THEN OneMore(pendingCopy, active) ELSE pendingCopy
       /\ pendingTimer' = IF sync /\ platform = "mac" THEN OneMore(pendingTimer, active)
                          ELSE pendingTimer
       /\ _cancelContextMenu' = IF sync THEN TRUE ELSE _cancelContextMenu
       /\ lastDown' = IF button = RightButton THEN event ELSE lastDown
       /\ lastOp' = event
       /\ UNCHANGED <<viewVars, rightClickBehavior, instances, active, selection,
                      platform, clipboardRead, pendingDrop, disposed>>

DoMouseDown == \E button \in Buttons, shiftKey \in BOOLEAN : MouseDown(button, shiftKey)

\* the rest of the 'mousedown' listener, once the awaited copySelection() resolved
CopyDone(terminal) ==
    /\ BagIn(terminal, pendingCopy)
    /\ platform = "mac" => BagCardinality(pendingTimer) < MaxPending
    /\ pendingCopy' = OneLess(pendingCopy, terminal)
    /\ selection' = selection \ {terminal}
    /\ calls' = <<[fn |-> "clearSelection", terminal |-> terminal]>>
    /\ pendingTimer' = IF platform = "mac" THEN OneMore(pendingTimer, terminal)
                       ELSE pendingTimer
    /\ _cancelContextMenu' = TRUE
    /\ lastOp' = [op |-> "copyDone", terminal |-> terminal]
    /\ UNCHANGED <<viewVars, rightClickBehavior, instances, active, platform,
                   clipboardRead, pendingDrop, lastDown, disposed>>

DoCopyDone == \E terminal \in Terminals : CopyDone(terminal)

\* setTimeout(() => terminal.clearSelection(), 0)
TimerFire(terminal) ==
    /\ BagIn(terminal, pendingTimer)
    /\ pendingTimer' = OneLess(pendingTimer, terminal)
    /\ selection' = selection \ {terminal}
    /\ calls' = <<[fn |-> "clearSelection", terminal |-> terminal]>>
    /\ lastOp' = [op |-> "timer", terminal |-> terminal]
    /\ UNCHANGED <<viewVars, rightClickBehavior, _cancelContextMenu, instances, active,
                   platform, clipboardRead, pendingCopy, pendingDrop, lastDown, disposed>>

DoTimerFire == \E terminal \in Terminals : TimerFire(terminal)

\* the 'contextmenu' listener
ContextMenu ==
    /\ ~disposed
    /\ calls' = (IF ~_cancelContextMenu THEN OpenContextMenu ELSE <<>>)
                \o <<[fn |-> "preventDefault"], [fn |-> "stopImmediatePropagation"]>>
    /\ _cancelContextMenu' = FALSE
    /\ lastDown' = NoDown
    /\ lastOp' = [op |-> "contextmenu", follows |-> lastDown,
                  flagBefore |-> _cancelContextMenu]
    /\ UNCHANGED <<viewVars, rightClickBehavior, instances, active, selection, platform,
                   clipboardRead, pendingCopy, pendingDrop, pendingTimer, disposed>>

\* ---------------------------------------------------------------------- drop
ResourceUris == {"file:///tmp/a.txt"}
FilePaths == {"/tmp/b.txt"}
\* e.dataTransfer: absent, or the RESOURCES payload and files[0].path ("" when absent)
DropPayloads ==
    {[dataTransfer |-> FALSE]} \cup
    {[dataTransfer |-> TRUE, resources |-> r, file |-> f] :
        r \in ResourceUris \cup {""}, f \in FilePaths \cup {""}}

\* URI.parse(JSON.parse(resources)[0]).fsPath
FsPathOfUri(uri) == IF uri = "file:///tmp/a.txt" THEN "/tmp/a.txt" ELSE NoPath
\* URI.file(path).fsPath
FsPathOfFile(path) == path

ResolvePath(payload) ==
    IF ~payload.dataTransfer THEN NoPath
    ELSE IF payload.resources # "" THEN FsPathOfUri(payload.resources)
    ELSE IF payload.file # "" THEN FsPathOfFile(payload.file)
    ELSE NoPath

\* preparePathForTerminalAsync(path, executable, title, shellType)
PreparePath(path, terminal) == [prepared |-> path, shellOf |-> terminal]

SendTargetSlip(captured, current) == current

\* const terminal = getActiveInstance(): the continuation uses the captured instance
SendTarget(captured, current) == captured

\* the DROP listener up to its await
Drop(payload) ==
    LET path == ResolvePath(payload)
        goes == path # NoPath /\ active # NoTerminal
        request == [terminal |-> active, path |-> path]
    IN /\ ~disposed
       /\ goes => BagCardinality(pendingDrop) < MaxPending
       /\ calls' = IF goes
                   THEN <<[fn |-> "preparePathForTerminalAsync", path |-> path,
                           terminal |-> active]>>
                   ELSE <<>>
       /\ pendingDrop' = IF goes THEN OneMore(pendingDrop, request) ELSE pendingDrop
       /\ lastOp' = [op |-> "drop", path |-> path, terminal |-> active]
       /\ UNCHANGED <<viewVars, rightClickBehavior, _cancelContextMenu, instances,
                      active, selection, platform, clipboardRead, pendingCopy,
                      pendingTimer, lastDown, disposed>>

DoDrop == \E payload \in DropPayloads : Drop(payload)

\* the rest of the DROP listener, once the prepared path arrived
DropDone(request) ==
    LET target == SendTarget(request.terminal, active)
    IN /\ BagIn(request, pendingDrop)
       /\ pendingDrop' = OneLess(pendingDrop, request)
       /\ calls' = <<[fn |-> "sendText", terminal |-> target,
                      text |-> PreparePath(request.path, request.terminal),
                      execute |-> FALSE],
                     [fn |-> "focus", terminal |-> target]>>
       /\ lastOp' = [op |-> "dropDone", request |-> request]
       /\ UNCHANGED <<viewVars, rightClickBehavior, _cancelContextMenu, instances,
                      active, selection, platform, clipboardRead, pendingCopy,
                      pendingTimer, lastDown, disposed>>

DoDropDone == \E request \in BagToSet(pendingDrop) : DropDone(request)

\* ------------------------------------------------------------- environment
\* The user does one thing at a time: selecting text, activating another
\* terminal or editing a setting happens between right-clicks, not between a
\* right-button mousedown and its contextmenu event.  Continuations (copy,
\* prepared path, timer) run at any time.
\* the user selects text in a terminal (terminal.hasSelection() becomes true)
Select(terminal) ==
    /\ lastDown = NoDown
    /\ terminal \in instances \ selection
    /\ selection' = selection \cup {terminal}
    /\ calls' = <<>>
    /\ lastOp' = [op |-> "environment"]
    /\ UNCHANGED <<viewVars, rightClickBehavior, _cancelContextMenu, instances, active,
                   platform, clipboardRead, pendingCopy, pendingDrop, pendingTimer,
                   lastDown, disposed>>

\* another instance (or none) becomes the active one
SetActive(terminal) ==
    /\ lastDown = NoDown
    /\ terminal \in (instances \cup {NoTerminal}) \ {active}
    /\ active' = terminal
    /\ calls' = <<>>
    /\ lastOp' = [op |-> "environment"]
    /\ UNCHANGED <<viewVars, rightClickBehavior, _cancelContextMenu, instances,
                   selection, platform, clipboardRead, pendingCopy, pendingDrop,
                   pendingTimer, lastDown, disposed>>

DoSelect == \E terminal \in Terminals : Select(terminal)
DoSetActive == \E terminal \in Terminals \cup {NoTerminal} : SetActive(terminal)

\* terminal.integrated.rightClickBehavior changes; the listener reads it live
SetRightClickBehavior ==
    /\ lastDown = NoDown
    /\ \E behavior \in RightClickBehaviors \ {rightClickBehavior} :
          ConfigChange({OtherKey}, showTabs, tabsLocation, behavior)

InitCtl == InitView /\ InitCommon /\ InitInput
           /\ showTabs = TRUE /\ tabsLocation = "left"

NextInput ==
    \/ DoMouseDown
    \/ DoCopyDone
    \/ DoTimerFire
    \/ ContextMenu
    \/ DoSelect
    \/ DoSetActive
    \/ SetRightClickBehavior
    \/ Dispose

SpecInput == InitCtl /\ [][NextInput]_vars

NextDrop ==
    \/ DoDrop
    \/ DoDropDone
    \/ DoSetActive
    \/ Dispose

InitDrop == InitCtl /\ rightClickBehavior = "default" /\ selection = {}
            /\ platform = "linux" /\ clipboardRead = TRUE

SpecDrop == InitDrop /\ [][NextDrop]_vars

\* the gestures that need an active terminal, together: mousedown and drop,
\* with no text selected (so no copy is ever awaited)
InitGesture == InitCtl /\ selection = {}

NextGesture ==
    \/ DoMouseDown
    \/ ContextMenu
    \/ DoTimerFire
    \/ DoDrop
    \/ DoDropDone
    \/ DoSetActive

SpecGesture == InitGesture /\ [][NextGesture]_vars

\* ======================================================= split view claims
TabTreeCount == Cardinality(PositionsOf(viewItems, TabTree))
CallbackCalls == {i \in 1..Len(calls) : IsCallback(calls[i])}
NotificationOps == {"config", "findFocus", "theme", "sashReset",
                    "mousedown", "contextmenu", "drop"}

\* C2: no configuration-change notification makes the controller call addView
\* for the tab-list slot while that slot is in the split view, or removeView
\* while it is absent; the split view never holds the tab-list slot twice and
\* never loses the terminal-surface slot.
C2_ShowTabsIdempotent ==
    /\ lastOp.op = "config" =>
          \A i \in 1..Len(calls) :
              /\ calls[i].fn = "addView" => ~calls[i].present
              /\ calls[i].fn = "removeView" => calls[i].present
    /\ TabTreeCount <= 1
    /\ TerminalContainer \in Range(viewItems)

\* C3: constructed with showTabs = true, one notification turning showTabs off
\* and one turning it on again leave the split view with exactly the tab-list
\* and terminal-surface slots, in the order and with the indices it had right
\* after construction.
C3_ToggleRoundTrip ==
    (trip.n = 2 /\ trip.kind = "toggle") =>
        /\ viewItems = trip.before.views
        /\ Len(viewItems) = 2
        /\ Range(viewItems) = {TabTree, TerminalContainer}
        /\ _tabTreeIndex = trip.before.tabTreeIndex
        /\ _terminalContainerIndex = trip.before.terminalContainerIndex

C3_Witness ==
    /\ trip.n = 2 /\ trip.kind = "toggle"
    /\ tabsLocation = "right"
    /\ lastOp.op = "config"
    /\ \E i \in 1..Len(calls) : calls[i].fn = "addView"

\* C4: while tabs are shown, two tabs-location notifications that change the
\* location to the other value and back restore the physical order of the slots
\* and the values of _tabTreeIndex and _terminalContainerIndex.
C4_SwapRoundTrip ==
    (trip.n = 2 /\ trip.kind = "swap") =>
        /\ viewItems = trip.before.views
        /\ _tabTreeIndex = trip.before.tabTreeIndex
        /\ _terminalContainerIndex = trip.before.terminalContainerIndex

\* C8: layout(width, height) forwards width to the split view's layout exactly
\* once and leaves _height equal to height; every pane layout callback invoked
\* by a later step, before the next layout call, passes the height of the last
\* layout call (the terminal-surface callback passes 0 before any layout call).
C8_LayoutRecordsHeight ==
    /\ lastOp.op = "layout" =>
          /\ Cardinality({i \in 1..Len(calls) : calls[i].fn = "splitView.layout"}) = 1
          /\ \A i \in 1..Len(calls) :
                calls[i].fn = "splitView.layout" => calls[i].width = lastOp.width
          /\ _height = lastOp.height
    /\ lastOp.op # "layout" =>
          \A i \in CallbackCalls :
              IF lastLayout.called THEN calls[i].height = lastLayout.height
              ELSE calls[i].fn = "tab.layout" => calls[i].height = 0

C8_Witness ==
    /\ lastOp.op = "sashReset"
    /\ lastLayout.called /\ lastLayout.height = MaxDim
    /\ \E i \in CallbackCalls : calls[i].fn = "tab.layout"
    /\ \E i \in CallbackCalls : calls[i].fn = "tabsWidget.layout"

\* C9: once the controller is disposed, no configuration-change, find-overlay
\* focus, theme, DOM or sash-reset notification changes the controller's state
\* or issues addView, removeView or swapViews.
C9_DisposedIsInert ==
    [][(disposed /\ lastOp'.op \in NotificationOps) =>
          /\ UNCHANGED <<_showTabs, _tabTreeIndex, _terminalContainerIndex, _height,
                         _cancelContextMenu, viewItems, findClass>>
          /\ \A i \in 1..Len(calls') : ~IsEngineCall(calls'[i])]_vars

\* C10: when tabs are shown the split view holds exactly the two slots, one at
\* position 0 and the other at position 1; when tabs are hidden it holds only
\* the terminal-surface slot, at position 0.
C10_SlotsMatchShowTabs ==
    IF _showTabs
    THEN Len(viewItems) = 2 /\ Range(viewItems) = {TabTree, TerminalContainer}
    ELSE viewItems = <<TerminalContainer>>
\* ==================================================== input routing claims
HasCall(name) == \E i \in 1..Len(calls) : calls[i].fn = name

\* a right-button mousedown without Shift under 'copyPaste' on an active terminal
CopyPasteDown(event) ==
    /\ event.op = "mousedown"
    /\ event.button = RightButton
    /\ event.behavior = "copyPaste"
    /\ event.terminal # NoTerminal
    /\ ~event.shiftKey

\* C1: under 'copyPaste', a right-button mousedown without Shift on an active
\* terminal with a selection calls copySelection on that terminal; the
\* contextmenu event that immediately follows that mousedown does not open the
\* context menu and leaves the suppression flag false, whether or not the
\* awaited copySelection has completed by then.
C1_CopySuppressesMenu ==
    /\ (CopyPasteDown(lastOp) /\ lastOp.hadSelection) =>
          calls = <<[fn |-> "copySelection", terminal |-> lastOp.terminal]>>
    /\ (lastOp.op = "contextmenu" /\ CopyPasteDown(lastOp.follows)
        /\ lastOp.follows.hadSelection) =>
          /\ ~HasCall("showContextMenu")
          /\ ~_cancelContextMenu

\* C5: under 'default', a right-button mousedown calls nothing and leaves the
\* suppression flag as it was, and the contextmenu event that follows it opens
\* the context menu, whatever right-click interactions and setting changes
\* came before.
C5_DefaultOpensMenu ==
    /\ (lastOp.op = "mousedown" /\ lastOp.button = RightButton
        /\ lastOp.behavior = "default") =>
          /\ calls = <<>>
          /\ _cancelContextMenu = lastOp.flagBefore
    /\ (lastOp.op = "contextmenu" /\ lastOp.follows.op = "mousedown"
        /\ lastOp.follows.behavior = "default") =>
          HasCall("showContextMenu")

\* C6: under 'copyPaste', a right-button mousedown without Shift on an active
\* terminal without a selection calls paste exactly once and shows no notice
\* when clipboard read is available, shows exactly one notice and never calls
\* paste when it is not, and sets the suppression flag in both cases.
C6_PasteOrNotice ==
    (CopyPasteDown(lastOp) /\ ~lastOp.hadSelection) =>
        /\ calls = IF clipboardRead
                   THEN <<[fn |-> "paste", terminal |-> lastOp.terminal]>>
                   ELSE <<[fn |-> "notificationService.info"]>>
        /\ _cancelContextMenu

C6_Witness ==
    /\ CopyPasteDown(lastOp) /\ ~lastOp.hadSelection
    /\ ~clipboardRead
    /\ ~lastOp.flagBefore
    /\ HasCall("notificationService.info")

\* C7: a drop that resolves to a path, with an active terminal, only asks for
\* the prepared path; once it arrived, the handler issues exactly one
\* sendText(prepared path, execute = false) and then exactly one focus, both on
\* the terminal that was active at drop time; a drop that resolves to no path
\* issues no call at all.
C7_DropSendsPreparedPath ==
    /\ (lastOp.op = "drop" /\ lastOp.path = NoPath) => calls = <<>>
    /\ (lastOp.op = "drop" /\ lastOp.path # NoPath /\ lastOp.terminal # NoTerminal) =>
          /\ calls = <<[fn |-> "preparePathForTerminalAsync", path |-> lastOp.path,
                        terminal |-> lastOp.terminal]>>
          /\ BagIn([terminal |-> lastOp.terminal, path |-> lastOp.path], pendingDrop)
    /\ lastOp.op = "dropDone" =>
          calls = <<[fn |-> "sendText", terminal |-> lastOp.request.terminal,
                     text |-> PreparePath(lastOp.request.path, lastOp.request.terminal),
                     execute |-> FALSE],
                    [fn |-> "focus", terminal |-> lastOp.request.terminal]>>

C7_Witness ==
    /\ lastOp.op = "dropDone"
    /\ lastOp.request.path = "/tmp/a.txt"
    /\ active # lastOp.request.terminal
    /\ HasCall("sendText")

\* ============================================ configuration and layout claims
OwnKeys == {ShowTabsKey, TabsLocationKey}
CallsNamed(name) == {i \in 1..Len(calls) : calls[i].fn = name}

\* C11: a configuration-change notification that affects neither the show-tabs
\* key nor the tabs-location key leaves _showTabs, _tabTreeIndex,
\* _terminalContainerIndex and the split view's slots unchanged and issues no
\* addView, removeView or swapViews call.
C11_OtherKeysIgnored ==
    [][(lastOp'.op = "config" /\ lastOp'.keys \cap OwnKeys = {}) =>
          /\ UNCHANGED <<_showTabs, _tabTreeIndex, _terminalContainerIndex, viewItems>>
          /\ \A i \in 1..Len(calls') : ~IsEngineCall(calls'[i])]_vars

C11_Witness ==
    /\ lastOp.op = "config"
    /\ lastOp.keys = {OtherKey}
    /\ _showTabs /\ Len(viewItems) = 2
    /\ calls = <<>>

\* C13: after every configuration-change notification, also one in which both
\* keys changed, _tabTreeIndex is 0 and _terminalContainerIndex is 1 when
\* tabsLocation is 'left', and 1 and 0 otherwise; and whenever tabs are shown
\* the tab-list slot sits at position _tabTreeIndex of the split view.
C13_IndicesMatchLocation ==
    /\ _tabTreeIndex = (IF tabsLocation = "left" THEN 0 ELSE 1)
    /\ _terminalContainerIndex = (IF tabsLocation = "left" THEN 1 ELSE 0)
    /\ _showTabs => PositionsOf(viewItems, TabTree) = {_tabTreeIndex}

\* C14: a notification that affects the tabs-location key and not the show-tabs
\* key issues exactly one swapViews(0, 1) call when tabs are shown; when tabs
\* are hidden it issues no call and only recomputes the two indices; it never
\* issues addView or removeView.
C14_LocationOnlySwaps ==
    (lastOp.op = "config" /\ lastOp.keys \cap OwnKeys = {TabsLocationKey}) =>
        /\ CallsNamed("addView") = {} /\ CallsNamed("removeView") = {}
        /\ _tabTreeIndex = (IF tabsLocation = "left" THEN 0 ELSE 1)
        /\ _terminalContainerIndex = (IF tabsLocation = "left" THEN 1 ELSE 0)
        /\ IF lastOp.shownBefore
           THEN /\ Cardinality(CallsNamed("swapViews")) = 1
                /\ \A i \in CallsNamed("swapViews") : calls[i].from = 0 /\ calls[i].to = 1
           ELSE calls = <<>>

C14_Witness ==
    /\ lastOp.op = "config" /\ lastOp.keys = {TabsLocationKey}
    /\ lastOp.shownBefore
    /\ tabsLocation = "right"
    /\ viewItems = <<TerminalContainer, TabTree>>
    /\ CallsNamed("swapViews") # {}

\* C18: the 'find-focused' marker is on the terminal-surface region if and only
\* if the find overlay has focus.
C18_MarkerFollowsFocus == findClass <=> findFocus

\* C19: the pane layout callbacks the split view invokes while handling
\* layout(width, height) pass that call's height to the tab list view and to
\* every open terminal tab.
C19_LayoutPassesOwnHeight ==
    lastOp.op = "layout" =>
        \A i \in CallbackCalls : calls[i].height = lastOp.height

\* ================================================= right-click and drop claims
MenusOpened == Cardinality(CallsNamed("showContextMenu"))

\* a right-button mousedown with Shift under 'copyPaste' on an active terminal
ShiftMenuDown(event) ==
    /\ event.op = "mousedown"
    /\ event.button = RightButton
    /\ event.behavior = "copyPaste"
    /\ event.terminal # NoTerminal
    /\ event.shiftKey

\* a right-button mousedown that copies or pastes instead of opening the menu
QualifyingDown(event) ==
    /\ event.op = "mousedown"
    /\ event.button = RightButton
    /\ event.behavior \in {"copyPaste", "paste"}
    /\ event.terminal # NoTerminal
    /\ ~(event.behavior = "copyPaste" /\ event.shiftKey)

\* C12: without an active terminal, a middle-button mousedown, a right-button
\* mousedown under any rightClickBehavior and a drop issue no call at all
\* (no focus, copySelection, clearSelection, paste, sendText, notice or menu),
\* await nothing and leave the suppression flag unchanged.
C12_NoTerminalNoEffect ==
    [][(/\ active = NoTerminal
        /\ lastOp'.op \in {"mousedown", "drop"}
        /\ lastOp'.op = "mousedown" => lastOp'.button \in {MiddleButton, RightButton}) =>
          /\ calls' = <<>>
          /\ UNCHANGED <<_cancelContextMenu, selection, pendingCopy, pendingDrop,
                         pendingTimer>>]_vars

C12_Witness ==
    /\ lastOp.op = "mousedown" /\ lastOp.button = RightButton
    /\ lastOp.behavior = "copyPaste"
    /\ lastOp.terminal = NoTerminal
    /\ instances # {}
    /\ calls = <<>>

\* C15: whenever the suppression flag is true, a qualifying right-button
\* mousedown has occurred and its contextmenu event has not been dispatched
\* yet; the flag is never true once that contextmenu event has been handled.
C15_FlagOnlyWithinInteraction ==
    _cancelContextMenu => QualifyingDown(lastDown)

\* C16: every contextmenu event opens the context menu if and only if the
\* suppression flag was false when it arrived, always prevents the default
\* menu and stops propagation, and leaves the flag false.
C16_ContextMenuHandler ==
    lastOp.op = "contextmenu" =>
        /\ MenusOpened = (IF lastOp.flagBefore THEN 0 ELSE 1)
        /\ Cardinality(CallsNamed("preventDefault")) = 1
        /\ Cardinality(CallsNamed("stopImmediatePropagation")) = 1
        /\ ~_cancelContextMenu

C16_Witness ==
    /\ lastOp.op = "contextmenu"
    /\ lastOp.flagBefore
    /\ MenusOpened = 0
    /\ HasCall("preventDefault")

\* C17 as claimed: a right-button mousedown and its contextmenu event together
\* open the context menu at most once; a Shift+right-click under 'copyPaste'
\* opens it from the mousedown and not again on the contextmenu event.
C17_MenuAtMostOnce ==
    /\ lastOp.op = "mousedown" => MenusOpened <= 1
    /\ (lastOp.op = "contextmenu" /\ lastOp.follows.op = "mousedown") =>
          (IF ShiftMenuDown(lastOp.follows) THEN 1 ELSE 0) + MenusOpened <= 1

\* C17 amended: only a Shift+right-click under 'copyPaste' on an active
\* terminal opens the menu from the mousedown; it performs no copy or paste
\* and leaves the suppression flag as it was, and the contextmenu event of any
\* interaction opens the menu once more unless the flag is set when it arrives.
C17_ShiftOpensFromMouseDown ==
    /\ lastOp.op = "mousedown" =>
          IF ShiftMenuDown(lastOp)
          THEN calls = <<[fn |-> "showContextMenu"]>>
               /\ _cancelContextMenu = lastOp.flagBefore
          ELSE MenusOpened = 0
    /\ (lastOp.op = "contextmenu" /\ lastOp.follows.op = "mousedown") =>
          MenusOpened = (IF lastOp.flagBefore THEN 0 ELSE 1)

C17_Witness ==
    /\ lastOp.op = "contextmenu"
    /\ ShiftMenuDown(lastOp.follows)
    /\ ~lastOp.flagBefore
    /\ MenusOpened = 1
====
